---------------------------- MODULE Spec2Model ----------------------------
(***************************************************************************)
(* c3nav web front end (src/src/main.py) together with the routing and     *)
(* positioning core it calls (classes.Graph, classes.Router, the route's   *)
(* describe() and graph.wifi.locate).  The handlers are translated from    *)
(* main.py; the core lives in the package `classes`, which main.py only    *)
(* imports, and is modelled from its documented contract.                  *)
(***************************************************************************)
EXTENDS Integers, Sequences, FiniteSets, TLC

VARIABLES
    env,          \* os.environ of the process: which of ROUTEONLY / WIFIONLY is set
    graph,        \* the process-wide Graph built at line 38
    req,          \* the request of main(): method, parameters, cookies
    pc,           \* position of main() in its body
    origin,       \* main(): origin after get_selectable_location
    destination,  \* main(): destination after get_selectable_location
    setsettings,  \* main(): the dict handed to Router(graph, setsettings)
    router,       \* main(): router.settings
    result,       \* main(): (messages, route) returned by router.get_route
    resp,         \* the response of the request
    lreq,         \* locate(): the posted form
    lresp,        \* locate(): the response
    threads       \* get_location_title(): per worker thread, its locals and response

vars == <<env, graph, req, pc, origin, destination, setsettings,
          router, result, resp, lreq, lresp, threads>>

---------------------------------------------------------------------------
(* Bounds of the model *)

\* connection distances are drawn from 1..MaxDist
MaxDist == 2
\* positions submitted by clients have x in 0..MaxCoord
MaxCoord == 4
\* signal strengths reported for a station are 1..MaxSignal
MaxSignal == 3
\* worker threads serving /n<level>:<x>:<y> concurrently
NumThreads == 2

---------------------------------------------------------------------------
(* JSON values as json.loads produces them, tagged with their Python type *)

Str(s)   == [t |-> "str",  s |-> s,  l |-> <<>>]
List(l)  == [t |-> "list", s |-> "", l |-> l]
IntV     == [t |-> "int",  s |-> "", l |-> <<>>]
NullV    == [t |-> "null", s |-> "", l |-> <<>>]
ObjV     == [t |-> "obj",  s |-> "", l |-> <<>>]

\* isinstance(v, collections.Iterable): str, list and dict are, int and None are not
IsIterable(v) == v.t \in {"str", "list", "obj"}

---------------------------------------------------------------------------
(* Router.default_settings: four policy fields and the list field e *)

ScalarNames == {"steps", "stairs", "escalators", "elevators"}
ListNames   == {"e"}
SettingNames == ScalarNames \cup ListNames
Policies    == {"yes", "no", "up", "down"}

default_settings ==
    [n \in SettingNames |-> IF n \in ListNames THEN List(<<>>) ELSE Str("yes")]

---------------------------------------------------------------------------
(* The graph: nodes, typed directed connections *)

\* a vertex is <<kind, level, x>>: kind "n" a stored Node, "p" a UserPosition
A == <<"n", 0, 0>>
B == <<"n", 0, 2>>
C == <<"n", 1, 0>>
D == <<"n", 1, 2>>
Nodes == {A, B, C, D}
NoneId == <<"none", 0, 0>>

CTypes == {"plain", "steps", "stairs", "escalators", "elevators"}

Conn(f, t, ct, dir, dist) ==
    [from |-> f, to |-> t, ctype |-> ct, direction |-> dir, distance |-> dist]
NoConn == Conn(NoneId, NoneId, "", "", 0)

Opposite(dir) == IF dir = "up" THEN "down" ELSE IF dir = "down" THEN "up" ELSE ""

\* a physical link between two nodes: none, or a ctype with a length; a one-way
\* link (an escalator) has only its forward connection
Link(ct, dist, oneway) == [ctype |-> ct, distance |-> dist, oneway |-> oneway]
NoLink == Link("none", 0, FALSE)

LinkConns(f, t, dir, lk) ==
    IF lk.ctype = "none" THEN {}
    ELSE {Conn(f, t, lk.ctype, dir, lk.distance)} \cup
         (IF lk.oneway THEN {} ELSE {Conn(t, f, lk.ctype, Opposite(dir), lk.distance)})

\* distances are stored in centimetres, in steps of 25
Distances == {25 * k : k \in 1..MaxDist}

\* Graph(project, auto_connect=True, load_wifi=...): the loaded graph
Graph(ab, cd, ac, bd, wifi) ==
    [nodes |-> Nodes,
     conns |-> LinkConns(A, B, "", ab) \cup LinkConns(C, D, "up", cd) \cup
               LinkConns(A, C, "up", ac) \cup LinkConns(B, D, "up", bd),
     wifi  |-> wifi]

ABLinks == {NoLink} \cup {Link("plain", d, FALSE) : d \in Distances}
CDLinks == {NoLink, Link("plain", 25, FALSE), Link("steps", 25, FALSE)}
ACLinks == {NoLink} \cup
           {Link(ct, d, FALSE) : ct \in {"stairs", "escalators", "elevators"}, d \in Distances}
BDLinks == {NoLink, Link("stairs", 25, FALSE), Link("elevators", 25, FALSE),
            Link("escalators", 25, TRUE)}

Graphs(wifi) ==
    {Graph(ab, cd, ac, bd, wifi) :
        ab \in ABLinks, cd \in CDLinks, ac \in ACLinks, bd \in BDLinks}

\* the graph the requests about settings run against
SquareGraph(wifi) ==
    Graph(Link("plain", 25, FALSE), Link("plain", 25, FALSE),
          Link("stairs", 25, FALSE), Link("elevators", 25, FALSE), wifi)

---------------------------------------------------------------------------
(* Graph.connect_position and Graph.get_selectable_location *)

Abs(i) == IF i < 0 THEN 0 - i ELSE i

\* nodes farther than this (in coordinate units) are not snapped to
SnapRadius == 1

\* the temporary connections of a UserPosition: both ways to every node of its
\* level within the snapping radius, weighted by walking distance
connect_position(g, pos) ==
    LET near == {n \in g.nodes : n[2] = pos[2] /\ Abs(n[3] - pos[3]) <= SnapRadius}
    IN  UNION {{Conn(pos, n, "plain", "", 25 * Abs(n[3] - pos[3])),
                Conn(n, pos, "plain", "", 25 * Abs(n[3] - pos[3]))} : n \in near}

Loc(id, edges) == [id |-> id, edges |-> edges]
NoneLoc == Loc(NoneId, {})

\* a name is a node's, a position's "level:x", unknown, or not given at all
get_selectable_location(g, name) ==
    IF name[1] = "n" /\ name \in g.nodes THEN Loc(name, {})
    ELSE IF name[1] = "p" THEN Loc(name, connect_position(g, name))
    ELSE NoneLoc

\* UserPosition.title: named after the nearest vertex it is attached to
Title(pos, edges) ==
    LET e == {c \in edges : c.from = pos}
    IN  IF e = {} THEN NoneId
        ELSE (CHOOSE c \in e : \A c2 \in e :
                 c.distance < c2.distance \/
                 (c.distance = c2.distance /\ c.to[3] <= c2.to[3])).to

---------------------------------------------------------------------------
(* Router: settings, the per-request cost view, the shortest-path search *)

\* Router(graph, settings).settings: every field of default_settings, taking the
\* given value where it is one the field admits and the default elsewhere
RouterSettings(given) ==
    [n \in SettingNames |->
        IF n \notin DOMAIN given THEN default_settings[n]
        ELSE IF n \in ListNames
             THEN (IF given[n].t = "list" THEN given[n] ELSE default_settings[n])
             ELSE (IF given[n].t = "str" /\ given[n].s \in Policies
                   THEN given[n] ELSE default_settings[n])]

\* the policy of a connection's ctype; plain connections have none
PolicyOf(settings, c) ==
    IF c.ctype \in ScalarNames THEN settings[c.ctype].s ELSE "yes"

Denied(settings, c) == PolicyOf(settings, c) = "no"

\* "up" admits the upward direction only, "down" the downward only
WrongWay(settings, c) ==
    \/ PolicyOf(settings, c) = "up" /\ c.direction = "down"
    \/ PolicyOf(settings, c) = "down" /\ c.direction = "up"

\* cost per centimetre, by ctype
Effort(ct) ==
    CASE ct = "plain" -> 2 [] ct = "steps" -> 3 [] ct = "stairs" -> 4
      [] ct = "escalators" -> 1 [] ct = "elevators" -> 1 [] OTHER -> 2

\* fixed cost of entering a connection: the wait for an elevator
Wait(ct) == IF ct = "elevators" THEN 60 ELSE 0

\* what a denied connection costs on top when the denies are relaxed
DenyPenalty == 1000

\* a connection of infinite cost is not in the cost view at all; the excluded
\* identifiers of settings['e'] are given no cost rule by the router's contract
\* and take no part in the search
Usable(settings, relaxed, c) ==
    /\ ~WrongWay(settings, c)
    /\ relaxed \/ ~Denied(settings, c)

ConnCost(settings, c) ==
    c.distance * Effort(c.ctype) + Wait(c.ctype) +
    (IF Denied(settings, c) THEN DenyPenalty ELSE 0)

\* a search label: cost, then distance, then ctype changes, and the connection
\* the vertex was reached by
Label(reached, cost, dist, trans, via) ==
    [reached |-> reached, cost |-> cost, dist |-> dist, trans |-> trans, via |-> via]
Unreached == Label(FALSE, 0, 0, 0, NoConn)

Better(l1, l2) ==
    \/ l1.cost < l2.cost
    \/ l1.cost = l2.cost /\ l1.dist < l2.dist
    \/ l1.cost = l2.cost /\ l1.dist = l2.dist /\ l1.trans < l2.trans

Extend(settings, l, c) ==
    Label(TRUE, l.cost + ConnCost(settings, c), l.dist + c.distance,
          l.trans + (IF l.via.ctype \notin {"", c.ctype} THEN 1 ELSE 0), c)

Least(S) == CHOOSE l \in S : \A m \in S : ~Better(m, l)

RECURSIVE Dijkstra(_, _, _, _, _)
Dijkstra(V, E, settings, lab, done) ==
    LET open == {v \in V \ done : lab[v].reached}
    IN  IF open = {} THEN lab
        ELSE LET u == CHOOSE v \in open : \A w \in open : ~Better(lab[w], lab[v])
                 Cand(v) == {Extend(settings, lab[u], c) :
                                c \in {c \in E : c.from = u /\ c.to = v}}
                 relaxedLab ==
                     [v \in V |->
                        IF v \in done \/ v = u \/ Cand(v) = {} THEN lab[v]
                        ELSE IF ~lab[v].reached \/ Better(Least(Cand(v)), lab[v])
                             THEN Least(Cand(v)) ELSE lab[v]]
             IN  Dijkstra(V, E, settings, relaxedLab, done \cup {u})

RECURSIVE PathTo(_, _)
PathTo(lab, v) ==
    IF lab[v].via = NoConn THEN <<>>
    ELSE Append(PathTo(lab, lab[v].via.from), lab[v].via)

Points(o, conns) == <<o>> \o [i \in 1..Len(conns) |-> conns[i].to]

Route(found, points, conns, relaxed) ==
    [found |-> found, points |-> points, conns |-> conns, relaxed |-> relaxed]
NoRoute == Route(FALSE, <<>>, <<>>, FALSE)

\* one search attempt over the stored connections and the endpoints' own edges
Search(g, settings, o, d, relaxed) ==
    LET V == g.nodes \cup {o.id, d.id}
        E == {c \in g.conns \cup o.edges \cup d.edges : Usable(settings, relaxed, c)}
    IN  Dijkstra(V, E, settings,
                 [v \in V |-> IF v = o.id THEN Label(TRUE, 0, 0, 0, NoConn) ELSE Unreached],
                 {})

\* router.get_route(origin, destination) -> (messages, route)
get_route(g, settings, o, d) ==
    LET strict == Search(g, settings, o, d, FALSE)
    IN  IF strict[d.id].reached
        THEN [messages |-> <<>>,
              route |-> Route(TRUE, Points(o.id, PathTo(strict, d.id)),
                              PathTo(strict, d.id), FALSE)]
        ELSE LET relaxed == Search(g, settings, o, d, TRUE)
             IN  IF relaxed[d.id].reached
                 THEN [messages |-> <<>>,
                       route |-> Route(TRUE, Points(o.id, PathTo(relaxed, d.id)),
                                       PathTo(relaxed, d.id), TRUE)]
                 ELSE [messages |-> << <<"error", "no route">> >>, route |-> NoRoute]

---------------------------------------------------------------------------
(* route.describe() *)

\* seconds a connection takes: walking speed, or the ride and the wait for it
Duration(c) ==
    (c.distance \div 25) * (IF c.ctype \in {"escalators", "elevators"} THEN 10 ELSE 20) +
    (IF c.ctype = "elevators" THEN 30 ELSE 0)

Segment(c) ==
    [ctype |-> c.ctype, direction |-> c.direction,
     distance |-> c.distance, duration |-> Duration(c)]

\* consecutive connections of one ctype and direction become one segment
RECURSIVE Segments(_)
Segments(conns) ==
    IF conns = <<>> THEN <<>>
    ELSE LET c == Head(conns)
             rest == Segments(Tail(conns))
         IN  IF rest # <<>> /\ rest[1].ctype = c.ctype /\ rest[1].direction = c.direction
             THEN <<[rest[1] EXCEPT !.distance = @ + c.distance,
                                    !.duration = @ + Duration(c)]>> \o Tail(rest)
             ELSE <<Segment(c)>> \o rest

\* route.describe() -> (segments, had_avoided_ctypes)
describe(route) == <<Segments(route.conns), route.relaxed>>

---------------------------------------------------------------------------
(* graph.wifi: the fingerprint index and locate() *)

\* stations of the map data, and the level each is mounted on
Stations == {"s1", "s2"}
StationLevel(s) == IF s = "s1" THEN 0 ELSE 1

\* a reference point: a position and the signal expected there of each station heard
RefPoint(pos, fp) == [pos |-> pos, fp |-> fp]
Signals == 1..MaxSignal

Wifi(loaded, points) == [loaded |-> loaded, points |-> points]
\* load_wifi=False: graph.wifi holds no locator
NoWifi == Wifi(FALSE, {})

Indexes ==
    {Wifi(TRUE, {RefPoint(<<"p", 0, 0>>, f0), RefPoint(<<"p", 1, 2>>, f1)}) :
        f0 \in [Stations -> Signals], f1 \in [{"s2"} -> Signals]}
DefaultIndex ==
    Wifi(TRUE, {RefPoint(<<"p", 0, 0>>, [s \in Stations |-> 1]),
                RefPoint(<<"p", 1, 2>>, [s \in {"s2"} |-> 1])})

KnownStations(wifi) == UNION {DOMAIN p.fp : p \in wifi.points}

\* agreement of the readings with a reference point: every shared station adds
\* more the closer its reading is to the expected signal
Score(p, readings) ==
    LET shared == DOMAIN p.fp \cap DOMAIN readings
        RECURSIVE Sum(_)
        Sum(S) == IF S = {} THEN 0
                  ELSE LET s == CHOOSE x \in S : TRUE
                       IN  (MaxSignal - Abs(p.fp[s] - readings[s])) + Sum(S \ {s})
    IN  Sum(shared)

\* a best score below this is not reported
MinScore == 3

Located(found, position, score, matched) ==
    [found |-> found, position |-> position, score |-> score, matched |-> matched]
NotLocated == Located(FALSE, NoneId, 0, 0)

\* graph.wifi.locate(readings) -> (position, score, matched_stations) | None
locate(wifi, readings) ==
    LET known == DOMAIN readings \cap KnownStations(wifi)
        levels == {StationLevel(s) : s \in known}
        candidates == {p \in wifi.points : p.pos[2] \in levels}
    IN  IF known = {} \/ candidates = {} THEN NotLocated
        ELSE LET best == CHOOSE p \in candidates :
                            \A q \in candidates : Score(q, readings) <= Score(p, readings)
             IN  IF Score(best, readings) < MinScore THEN NotLocated
                 ELSE Located(TRUE, best.pos, Score(best, readings), Cardinality(known))

\* request.form.get('stations'): not posted, text json.loads rejects, or readings
LocateRequest(kind, stations) == [kind |-> kind, stations |-> stations]
NoReadings == [s \in {} |-> 0]
IdleLocate == LocateRequest("none", NoReadings)

LocateResponse(status, body, located) == [status |-> status, body |-> body, located |-> located]
NoLocateResponse == LocateResponse(0, "", NotLocated)

\* a worker thread of app.run(threaded=True) serving /n<level>:<x>:<y>: where it
\* is in get_location_title, its pos, pos's temporary connections, its response
Thread(at, pos, edges, body, title) ==
    [at |-> at, pos |-> pos, edges |-> edges, body |-> body, title |-> title]
IdleThread == Thread("idle", NoneId, {}, "", NoneId)
IdleThreads == [t \in {} |-> IdleThread]

---------------------------------------------------------------------------
(* main(): the request *)

\* ua: whether the request carries a User-Agent header
Request(method, ua, o, d, scalars, elist, forceE, cookie, savesettings) ==
    [method |-> method, ua |-> ua, o |-> o, d |-> d, scalars |-> scalars, elist |-> elist,
     forceE |-> forceE, cookie |-> cookie, savesettings |-> savesettings]

\* the settings cookie: not sent, text json.loads rejects, or a JSON value of a
\* type; an object carries its members
Cookie(kind, t, fields) == [kind |-> kind, t |-> t, fields |-> fields]
NoFields == [n \in {} |-> NullV]
NoCookie == Cookie("absent", "", NoFields)

\* lines 96-104: cookie_settings and ctx['had_settings_cookie']
cookie_settings(cookie) ==
    IF cookie.kind = "json" THEN [t |-> cookie.t, fields |-> cookie.fields]
    ELSE [t |-> "obj", fields |-> NoFields]

had_settings_cookie(cookie) == cookie.kind = "json"

\* lines 119-120: the test a cookie's scalar value has to pass
CookieValueAccepted(cookie_value, default_value) ==
    \/ IsIterable(cookie_value) /\ default_value.t = "str"
    \/ cookie_value.t = "int" /\ default_value.t = "int"

\* lines 106-121 on a cookie that is not a dict: cookie_settings.get(name) at line
\* 110 (reached for e whatever the request holds) raises AttributeError, and
\* `name in cookie_settings` at line 117 raises TypeError on an int or None
LoadSettingsRaises(r) == cookie_settings(r.cookie).t # "obj"

\* lines 106-121 without the branch at lines 115-116: the request's own value of a
\* scalar field is not looked at
LoadedSettings_CookieOnly(r) ==
    LET cs == cookie_settings(r.cookie).fields
        taken ==
            {n \in SettingNames :
                IF n \in ListNames
                THEN \/ r.elist # <<>> \/ r.forceE
                     \/ (n \in DOMAIN cs /\ cs[n].t = "list")
                ELSE n \in DOMAIN cs /\ CookieValueAccepted(cs[n], default_settings[n])}
    IN  [n \in taken |->
            IF n \in ListNames
            THEN (IF r.elist # <<>> \/ r.forceE THEN List(r.elist) ELSE cs[n])
            ELSE cs[n]]

\* lines 106-121: setsettings
LoadedSettings(r) ==
    LET cs == cookie_settings(r.cookie).fields
        taken ==
            {n \in SettingNames :
                IF n \in ListNames
                THEN \/ r.elist # <<>> \/ r.forceE
                     \/ (n \in DOMAIN cs /\ cs[n].t = "list")
                ELSE \/ n \in DOMAIN r.scalars
                     \/ (n \in DOMAIN cs /\ CookieValueAccepted(cs[n], default_settings[n]))}
    IN  [n \in taken |->
            IF n \in ListNames
            THEN (IF r.elist # <<>> \/ r.forceE THEN List(r.elist) ELSE cs[n])
            ELSE (IF n \in DOMAIN r.scalars THEN Str(r.scalars[n]) ELSE cs[n])]

\* lines 131-140: ctx['avoid']
Arrow(s) == IF s = "no" THEN "both" ELSE IF s = "up" THEN "down" ELSE "up"
CTypeOrder == <<"steps", "stairs", "escalators", "elevators">>
Avoid(settings) ==
    LET avoided == SelectSeq(CTypeOrder, LAMBDA ct : settings[ct].s # "yes")
    IN  [i \in 1..Len(avoided) |-> <<avoided[i], Arrow(settings[avoided[i]].s)>>] \o
        [i \in 1..Len(settings["e"].l) |-> <<settings["e"].l[i], "">>]

\* round(x / 100, 1) in tenths: Python 3 rounds a tie to even, and every x / 100
\* of a multiple of 25 is a binary fraction, so that a tie is a tie
Round1(x) ==
    LET q == x \div 10
        r == x % 10
    IN  IF r < 5 THEN q ELSE IF r > 5 THEN q + 1 ELSE IF q % 2 = 0 THEN q ELSE q + 1

RECURSIVE SumOf(_, _)
SumOf(seq, field) ==
    IF seq = <<>> THEN 0
    ELSE (IF field = "distance" THEN Head(seq).distance ELSE Head(seq).duration) +
         SumOf(Tail(seq), field)

Ctx(cookie, avoid, isresult, messages, described, routeparts, total_distance, total_duration) ==
    [had_settings_cookie |-> cookie, avoid |-> avoid, isresult |-> isresult,
     messages |-> messages, described |-> described, routeparts |-> routeparts,
     total_distance |-> total_distance, total_duration |-> total_duration]
NoCtx == Ctx(FALSE, <<>>, FALSE, <<>>, FALSE, <<>>, 0, <<0, 0>>)

Response(status, body, ctx, set_cookie) ==
    [status |-> status, body |-> body, ctx |-> ctx, set_cookie |-> set_cookie]
NoResponse == Response(0, "", NoCtx, FALSE)

WarnAvoided == <<"warn", "route contains way types you wanted to avoid">>

NoResult == [messages |-> <<>>, route |-> NoRoute]
NoSettings == [n \in {} |-> NullV]

---------------------------------------------------------------------------
(* main(): the handler, in the order of its body *)


\* lines 59-93: the WIFIONLY guard, ctx (line 78 calls startswith on the
\* User-Agent header, None when the request has none: the AttributeError leaves
\* the handler and Flask answers 500), then origin and destination
MainResolve ==
    /\ pc = "start"
    /\ IF "WIFIONLY" \in env
       THEN /\ resp' = Response(200, "", NoCtx, FALSE)
            /\ pc' = "done"
            /\ UNCHANGED <<origin, destination>>
       ELSE IF ~req.ua
       THEN /\ resp' = Response(500, "Internal Server Error", NoCtx, FALSE)
            /\ pc' = "done"
            /\ UNCHANGED <<origin, destination>>
       ELSE /\ origin' = get_selectable_location(graph, req.o)
            /\ destination' = get_selectable_location(graph, req.d)
            /\ IF req.method = "POST" /\ origin' = NoneLoc
               THEN resp' = Response(200, "missing origin", NoCtx, FALSE) /\ pc' = "done"
               ELSE IF req.method = "POST" /\ destination' = NoneLoc
               THEN resp' = Response(200, "missing destination", NoCtx, FALSE) /\ pc' = "done"
               ELSE resp' = resp /\ pc' = "settings"
    /\ UNCHANGED <<env, graph, req, setsettings, router, result, lreq, lresp, threads>>

\* lines 95-146: the cookie and the request merged into setsettings (an exception
\* leaves the handler and Flask answers 500), the router, what is avoided, and
\* the page of a GET
MainSettings ==
    /\ pc = "settings"
    /\ IF LoadSettingsRaises(req)
       THEN /\ resp' = Response(500, "Internal Server Error", NoCtx, FALSE)
            /\ pc' = "done"
            /\ UNCHANGED <<setsettings, router>>
       ELSE /\ setsettings' = LoadedSettings(req)
            /\ router' = RouterSettings(setsettings')
            /\ IF req.method = "GET"
               THEN /\ resp' = Response(200, "main.html",
                                        [NoCtx EXCEPT
                                            !.had_settings_cookie = had_settings_cookie(req.cookie),
                                            !.avoid = Avoid(router')],
                                        FALSE)
                    /\ pc' = "done"
               ELSE /\ pc' = "route"
                    /\ UNCHANGED resp
    /\ UNCHANGED <<env, graph, req, origin, destination, result, lreq, lresp, threads>>

\* lines 152-166 without lines 154-156: the warning is never appended
RouteCtx_NoWarning(route, messages) ==
    LET d == describe(route)
    IN  [messages |-> messages,
         routeparts |-> d[1],
         total_distance |-> Round1(SumOf(d[1], "distance")),
         total_duration |-> <<SumOf(d[1], "duration") \div 60, SumOf(d[1], "duration") % 60>>]

\* lines 152-166 with line 163 summing rp['duration'] in place of rp['distance']
RouteCtx_SumsDuration(route, messages) ==
    LET d == describe(route)
    IN  [messages |-> IF d[2] THEN Append(messages, WarnAvoided) ELSE messages,
         routeparts |-> d[1],
         total_distance |-> Round1(SumOf(d[1], "duration")),
         total_duration |-> <<SumOf(d[1], "duration") \div 60, SumOf(d[1], "duration") % 60>>]

\* lines 152-166: what the handler adds to ctx for a route
RouteCtx(route, messages) ==
    LET d == describe(route)
    IN  [messages |-> IF d[2] THEN Append(messages, WarnAvoided) ELSE messages,
         routeparts |-> d[1],
         total_distance |-> Round1(SumOf(d[1], "distance")),
         total_duration |-> <<SumOf(d[1], "duration") \div 60, SumOf(d[1], "duration") % 60>>]

\* lines 151-180 without the test of line 152: describe() is called on None, the
\* AttributeError leaves the handler and Flask answers 500
MainRoute_NoNoneTest ==
    /\ pc = "route"
    /\ result' = get_route(graph, router, origin, destination)
    /\ LET base == [NoCtx EXCEPT !.had_settings_cookie = had_settings_cookie(req.cookie),
                                 !.avoid = Avoid(router),
                                 !.isresult = TRUE]
       IN  IF result'.route.found
           THEN LET rc == RouteCtx(result'.route, result'.messages)
                IN  resp' = Response(200, "main.html",
                                     [base EXCEPT !.described = TRUE,
                                                  !.messages = rc.messages,
                                                  !.routeparts = rc.routeparts,
                                                  !.total_distance = rc.total_distance,
                                                  !.total_duration = rc.total_duration],
                                     req.savesettings)
           ELSE resp' = Response(500, "Internal Server Error",
                                 [NoCtx EXCEPT !.isresult = TRUE, !.described = TRUE], FALSE)
    /\ pc' = "done"
    /\ UNCHANGED <<env, graph, req, origin, destination, setsettings, router, lreq, lresp, threads>>

\* lines 151-180: the route and the result page
MainRoute ==
    /\ pc = "route"
    /\ result' = get_route(graph, router, origin, destination)
    /\ LET base == [NoCtx EXCEPT !.had_settings_cookie = had_settings_cookie(req.cookie),
                                 !.avoid = Avoid(router),
                                 !.isresult = TRUE]
           ctx == IF result'.route.found
                  THEN LET rc == RouteCtx(result'.route, result'.messages)
                       IN  [base EXCEPT !.described = TRUE,
                                        !.messages = rc.messages,
                                        !.routeparts = rc.routeparts,
                                        !.total_distance = rc.total_distance,
                                        !.total_duration = rc.total_duration]
                  ELSE [base EXCEPT !.messages = result'.messages]
       IN  resp' = Response(200, "main.html", ctx, req.savesettings)
    /\ pc' = "done"
    /\ UNCHANGED <<env, graph, req, origin, destination, setsettings, router, lreq, lresp, threads>>

MainNext ==
    \/ MainResolve
    \/ MainSettings
    \/ MainRoute

---------------------------------------------------------------------------
(* The requests and graphs main() is run on *)

PolicyParams ==
    {[n \in ScalarNames |->
        IF n = "stairs" THEN st ELSE IF n = "elevators" THEN el
        ELSE IF n = "escalators" THEN es ELSE sp] :
        st \in Policies, el \in {"yes", "no", "up"}, es \in {"yes", "down"},
        sp \in {"yes", "no"}}

NoParams == [n \in {} |-> ""]
Absent == <<"absent", 0, 0>>
Unknown == <<"unknown", 0, 0>>

\* route requests: policies in the request, no cookie
RouteRequests ==
    {Request("POST", TRUE, od[1], od[2], sc, <<>>, FALSE, NoCookie, FALSE) :
        od \in {<<A, D>>, <<D, A>>}, sc \in PolicyParams}

\* requests from and to submitted positions, attached or out of snapping range,
\* and requests whose names do not resolve
PositionRequests ==
    {Request(m, ua, o, d, sc, <<>>, FALSE, NoCookie, FALSE) :
        m \in {"GET", "POST"}, ua \in BOOLEAN,
        o \in {A, Absent, Unknown} \cup {<<"p", 0, x>> : x \in 0..MaxCoord},
        d \in {D, C, Absent, <<"p", 1, MaxCoord>>, <<"p", 1, 1>>},
        sc \in {NoParams, [n \in {"stairs", "elevators"} |-> "no"]}}

\* requests about settings: cookies of every shape against request parameters
CookieValues(n) ==
    IF n \in ListNames
    THEN {List(<<>>), List(<<"r1">>), Str("r1"), IntV}
    ELSE {Str("no"), Str("up"), Str("zz"), IntV, NullV, List(<<"no">>)}

Cookies ==
    {NoCookie, Cookie("garbage", "", NoFields)} \cup
    {Cookie("json", t, NoFields) : t \in {"list", "int", "str", "null"}} \cup
    {Cookie("json", "obj", f) :
        f \in UNION {[dom -> UNION {CookieValues(n) : n \in dom}] :
                        dom \in SUBSET {"stairs", "e"}}}

SettingsRequests ==
    {Request(m, TRUE, A, D, sc, el, force, ck, ck.kind = "absent") :
        m \in {"GET", "POST"},
        sc \in {NoParams} \cup {[n \in {"stairs"} |-> v] : v \in {"no", "down", "zz"}},
        el \in {<<>>, <<"r2">>}, force \in BOOLEAN,
        ck \in {c \in Cookies :
                  \A n \in DOMAIN c.fields : c.fields[n] \in CookieValues(n)}}

InitMain(environ, requests, graphs) ==
    /\ env = environ
    /\ graph \in graphs
    /\ req \in requests
    /\ pc = "start"
    /\ origin = NoneLoc
    /\ destination = NoneLoc
    /\ setsettings = NoSettings
    /\ router = default_settings
    /\ result = NoResult
    /\ resp = NoResponse
    /\ lreq = IdleLocate
    /\ lresp = NoLocateResponse
    /\ threads = IdleThreads

Init ==
    \/ InitMain({}, RouteRequests, Graphs(DefaultIndex))
    \/ InitMain({}, PositionRequests, {SquareGraph(DefaultIndex)})
    \/ InitMain({"ROUTEONLY"}, SettingsRequests, {SquareGraph(NoWifi)})
    \/ InitMain({"WIFIONLY"}, PositionRequests, {SquareGraph(DefaultIndex)})

Next == MainNext

Spec == Init /\ [][Next]_vars

---------------------------------------------------------------------------
(* What the claims about main() are stated over *)

\* every loop-free walk from v to d over the connections E
RECURSIVE PathsFrom(_, _, _, _)
PathsFrom(E, v, d, visited) ==
    IF v = d THEN {<<>>}
    ELSE UNION {{<<c>> \o p : p \in PathsFrom(E, c.to, d, visited \cup {c.to})} :
                    c \in {c \in E : c.from = v /\ c.to \notin visited}}

AllPaths == PathsFrom(graph.conns \cup origin.edges \cup destination.edges,
                      origin.id, destination.id, {origin.id})

\* the policies the request asks for, read off the request itself
Requested ==
    [n \in SettingNames |->
        IF n \in DOMAIN req.scalars /\ req.scalars[n] \in Policies
        THEN Str(req.scalars[n]) ELSE router[n]]

UsesDenied(p) == \E i \in 1..Len(p) : Denied(Requested, p[i])
GoesWrongWay(p) == \E i \in 1..Len(p) : WrongWay(Requested, p[i])

RECURSIVE PathCost(_)
PathCost(p) ==
    IF p = <<>> THEN 0 ELSE ConnCost(Requested, Head(p)) + PathCost(Tail(p))

RECURSIVE PathDistance(_)
PathDistance(p) == IF p = <<>> THEN 0 ELSE Head(p).distance + PathDistance(Tail(p))

\* main() answered a POST with the result page
Routed == pc = "done" /\ resp.ctx.isresult

Warned == \E i \in 1..Len(resp.ctx.messages) : resp.ctx.messages[i] = WarnAvoided

\* C1, as stated: whenever every path from origin to destination uses a connection
\* of a denied ctype, get_route returns a route using one, describe() reports
\* had_avoided_ctypes and the caller's messages hold the warning; and no route
\* reported with had_avoided_ctypes = false uses a denied connection.
C1_AsStated ==
    Routed =>
        /\ (AllPaths # {} /\ \A p \in AllPaths : UsesDenied(p)) =>
               /\ result.route.found
               /\ UsesDenied(result.route.conns)
               /\ describe(result.route)[2]
               /\ Warned
        /\ (result.route.found /\ ~describe(result.route)[2]) =>
               ~UsesDenied(result.route.conns)

\* C1, amended: the same, for the paths that respect every up-only and down-only
\* policy: when there is such a path and each of them uses a connection of a
\* denied ctype, a route using one is returned with had_avoided_ctypes and the
\* warning; and no route with had_avoided_ctypes = false uses a denied connection.
C1_DeniedOnlyPathWarns ==
    Routed =>
        LET admissible == {p \in AllPaths : ~GoesWrongWay(p)}
        IN  /\ (admissible # {} /\ \A p \in admissible : UsesDenied(p)) =>
                   /\ result.route.found
                   /\ UsesDenied(result.route.conns)
                   /\ describe(result.route)[2]
                   /\ Warned
            /\ (result.route.found /\ ~describe(result.route)[2]) =>
                   ~UsesDenied(result.route.conns)

\* an elevator is the only way from origin to destination, elevators are denied,
\* and the result page shows the route over it
C1_Witness ==
    /\ Routed
    /\ AllPaths # {}
    /\ \A p \in AllPaths : \E i \in 1..Len(p) : p[i].ctype = "elevators"
    /\ Requested["elevators"].s = "no"
    /\ result.route.found
    /\ Warned

\* C2: the route returned costs no more than any path from origin to destination
\* that violates no deny policy (and is usable in its direction), and is itself
\* such a path unless every such path is missing.
C2_MinimalCost ==
    (Routed /\ result.route.found) =>
        LET allowed == {p \in AllPaths : ~UsesDenied(p) /\ ~GoesWrongWay(p)}
        IN  /\ \A p \in allowed : PathCost(result.route.conns) <= PathCost(p)
            /\ allowed # {} => result.route.conns \in allowed

\* two allowed paths of different cost, and the route is the cheaper
C2_Witness ==
    /\ Routed
    /\ result.route.found
    /\ \E p \in AllPaths :
          /\ ~UsesDenied(p) /\ ~GoesWrongWay(p)
          /\ PathCost(p) > PathCost(result.route.conns)
          /\ PathDistance(p) < PathDistance(result.route.conns)

\* C4: a POST with both endpoints resolved ends with the result page: either a
\* route, or no route and at least one message, which the page shows without
\* describe() having been called; and there is no route exactly when no path is
\* usable even with the denies relaxed.
C4_NoRouteIsAnswered ==
    Routed =>
        /\ resp.status = 200
        /\ result.route.found <=> (\E p \in AllPaths : ~GoesWrongWay(p))
        /\ ~result.route.found =>
               /\ result.route = NoRoute
               /\ Len(result.messages) >= 1
               /\ resp.ctx.messages = result.messages
               /\ ~resp.ctx.described

\* a position out of snapping range has no edges, and the request ends with the
\* result page and a message
C4_Witness ==
    /\ Routed
    /\ origin.id[1] = "p" /\ origin.edges = {}
    /\ ~result.route.found
    /\ Len(resp.ctx.messages) >= 1

\* C5: no connection of a returned route is traversed against an up-only or
\* down-only policy, whether the route comes from the strict or the relaxed search.
C5_DirectionKept ==
    (Routed /\ result.route.found) => ~GoesWrongWay(result.route.conns)

\* a relaxed route, where a path against an up-only or down-only policy exists
\* that uses no denied connection
C5_Witness ==
    /\ Routed
    /\ result.route.found /\ result.route.relaxed
    /\ \E p \in AllPaths : GoesWrongWay(p) /\ ~UsesDenied(p)

\* the segments are one per run of connections: f maps each connection to its
\* segment, in order, moving on exactly where ctype or direction changes
SegmentsOf(conns, segs, f) ==
    /\ Len(conns) = 0 <=> Len(segs) = 0
    /\ Len(conns) > 0 => f[1] = 1 /\ f[Len(conns)] = Len(segs)
    /\ \A i \in 1..Len(conns) :
          /\ segs[f[i]].ctype = conns[i].ctype
          /\ segs[f[i]].direction = conns[i].direction
    /\ \A i \in 1..(Len(conns) - 1) :
          IF conns[i].ctype = conns[i + 1].ctype /\ conns[i].direction = conns[i + 1].direction
          THEN f[i + 1] = f[i] ELSE f[i + 1] = f[i] + 1
    /\ \A j \in 1..Len(segs) :
          segs[j].distance =
              PathDistance(SelectSeq([i \in 1..Len(conns) |-> [conns[i] EXCEPT !.to = <<"", f[i], 0>>]],
                                     LAMBDA c : c.to[2] = j))

\* C9: the segments shown for a route are in the order of its connections, one
\* per maximal run of connections of one ctype and direction, their distances
\* add up to the distance of the path, and total_distance is that sum in metres
\* rounded to one decimal.
C9_SegmentsSumToPath ==
    (Routed /\ result.route.found) =>
        LET conns == result.route.conns
            segs == resp.ctx.routeparts
        IN  /\ \E f \in [1..Len(conns) -> 1..Len(segs)] : SegmentsOf(conns, segs, f)
            /\ \A j \in 1..(Len(segs) - 1) :
                  segs[j].ctype # segs[j + 1].ctype \/ segs[j].direction # segs[j + 1].direction
            /\ SumOf(segs, "distance") = PathDistance(conns)
            /\ 10 * resp.ctx.total_distance - PathDistance(conns) \in (0 - 5)..5

\* a route of three connections whose first two collapse into one segment
C9_Witness ==
    /\ Routed
    /\ result.route.found
    /\ Len(result.route.conns) = 3
    /\ Len(resp.ctx.routeparts) = 2
    /\ resp.ctx.routeparts[1].distance > result.route.conns[1].distance
    /\ resp.ctx.total_distance > 0

\* main() got as far as its settings and is done
SettingsLoaded ==
    /\ "WIFIONLY" \notin env /\ req.ua
    /\ pc = "route" \/ (pc = "done" /\ resp.body \in {"main.html", "Internal Server Error"})

\* C6, as stated: whatever the settings cookie and the request hold, loading the
\* settings does not fail, the router is handed only values of the kind of the
\* field's default, and router.settings has every name of default_settings.
C6_AsStated ==
    SettingsLoaded =>
        /\ resp.status # 500
        /\ \A n \in DOMAIN setsettings : setsettings[n].t = default_settings[n].t
        /\ DOMAIN router = SettingNames

\* C10, as stated: a scalar field is taken from the request when the request has
\* it, else from the cookie when the cookie has it with a value of the kind of the
\* default, else left out; e is the request's list when that is non-empty or
\* force-e is present, else the cookie's value when that is a list, else left out.
C10_AsStated ==
    (SettingsLoaded /\ resp.status # 500) =>
        LET cs == cookie_settings(req.cookie).fields
        IN  /\ \A n \in ScalarNames :
                  IF n \in DOMAIN req.scalars
                  THEN n \in DOMAIN setsettings /\ setsettings[n] = Str(req.scalars[n])
                  ELSE IF n \in DOMAIN cs /\ cs[n].t = default_settings[n].t
                  THEN n \in DOMAIN setsettings /\ setsettings[n] = cs[n]
                  ELSE n \notin DOMAIN setsettings
            /\ \A n \in ListNames :
                  IF req.elist # <<>> \/ req.forceE
                  THEN n \in DOMAIN setsettings /\ setsettings[n] = List(req.elist)
                  ELSE IF n \in DOMAIN cs /\ cs[n].t = "list"
                  THEN n \in DOMAIN setsettings /\ setsettings[n] = cs[n]
                  ELSE n \notin DOMAIN setsettings

---------------------------------------------------------------------------
(* locate(): the handler *)

\* lines 248-265 without the test of line 254: the unpacking of None raises and
\* Flask answers 500
Locate_NoNoneTest ==
    /\ lreq.kind # "none"
    /\ lresp = NoLocateResponse
    /\ lresp' =
          IF "ROUTEONLY" \in env THEN LocateResponse(200, "", NotLocated)
          ELSE IF lreq.kind # "json" \/ ~locate(graph.wifi, lreq.stations).found
               THEN LocateResponse(500, "Internal Server Error", NotLocated)
               ELSE LocateResponse(200, "json", locate(graph.wifi, lreq.stations))
    /\ UNCHANGED <<env, graph, req, pc, origin, destination, setsettings, router, result,
                   resp, lreq, threads>>

\* lines 248-265 without the guard of lines 250-251: graph.wifi holds no locator,
\* the call raises and Flask answers 500
Locate_NoGuard ==
    /\ lreq.kind # "none"
    /\ lresp = NoLocateResponse
    /\ lresp' =
          IF lreq.kind # "json" \/ ~graph.wifi.loaded
          THEN LocateResponse(500, "Internal Server Error", NotLocated)
          ELSE LET r == locate(graph.wifi, lreq.stations)
               IN  IF r.found THEN LocateResponse(200, "json", r)
                   ELSE LocateResponse(200, "null", NotLocated)
    /\ UNCHANGED <<env, graph, req, pc, origin, destination, setsettings, router, result,
                   resp, lreq, threads>>

\* lines 248-265: '' under ROUTEONLY; json.loads raises on a missing or malformed
\* form field; else the locator's result, None dumped as null
Locate ==
    /\ lreq.kind # "none"
    /\ lresp = NoLocateResponse
    /\ lresp' =
          IF "ROUTEONLY" \in env THEN LocateResponse(200, "", NotLocated)
          ELSE IF lreq.kind # "json"
               THEN LocateResponse(500, "Internal Server Error", NotLocated)
               ELSE LET r == locate(graph.wifi, lreq.stations)
                    IN  IF r.found THEN LocateResponse(200, "json", r)
                        ELSE LocateResponse(200, "null", NotLocated)
    /\ UNCHANGED <<env, graph, req, pc, origin, destination, setsettings, router, result,
                   resp, lreq, threads>>

Readings ==
    UNION {[dom -> Signals] : dom \in SUBSET (Stations \cup {"zz"})}

LocateRequests ==
    {LocateRequest("absent", NoReadings), LocateRequest("garbage", NoReadings)} \cup
    {LocateRequest("json", r) : r \in Readings}

\* line 38: load_wifi is (not ROUTEONLY)
InitLocate ==
    /\ env \in {{}, {"ROUTEONLY"}, {"WIFIONLY"}}
    /\ graph \in {SquareGraph(w) : w \in IF "ROUTEONLY" \in env THEN {NoWifi} ELSE Indexes}
    /\ lreq \in LocateRequests
    /\ lresp = NoLocateResponse
    /\ req = Request("GET", TRUE, Absent, Absent, NoParams, <<>>, FALSE, NoCookie, FALSE)
    /\ pc = "idle"
    /\ origin = NoneLoc
    /\ destination = NoneLoc
    /\ setsettings = NoSettings
    /\ router = default_settings
    /\ result = NoResult
    /\ resp = NoResponse
    /\ threads = IdleThreads

SpecLocate == InitLocate /\ [][Locate]_vars

Answered == "ROUTEONLY" \notin env /\ lreq.kind = "json" /\ lresp # NoLocateResponse

\* C8: when no submitted station is in the index, or no reference point scores
\* the minimum, the answer is null; an answer with a position gives the position
\* of a reference point of the index with its score, at least the minimum, and a
\* matched count that is the number of submitted stations the index knows, at
\* least 1.
C8_NoFabricatedPosition ==
    Answered =>
        LET idx == graph.wifi
            known == {s \in DOMAIN lreq.stations : \E p \in idx.points : s \in DOMAIN p.fp}
        IN  /\ lresp.status = 200
            /\ (known = {} \/ \A p \in idx.points : Score(p, lreq.stations) < MinScore) =>
                   (lresp.body = "null" /\ lresp.located = NotLocated)
            /\ lresp.body # "null" =>
                   /\ lresp.located.found
                   /\ lresp.located.matched >= 1
                   /\ lresp.located.matched = Cardinality(known)
                   /\ lresp.located.score >= MinScore
                   /\ \E p \in idx.points :
                         /\ p.pos = lresp.located.position
                         /\ Score(p, lreq.stations) = lresp.located.score

\* a known station was submitted with an unknown one, the best score is below
\* the minimum, and the answer is null
C8_Witness ==
    /\ Answered
    /\ "zz" \in DOMAIN lreq.stations
    /\ DOMAIN lreq.stations \cap KnownStations(graph.wifi) # {}
    /\ lresp.body = "null"

\* a position is reported, for fewer stations than were submitted
C8_WitnessFound ==
    /\ Answered
    /\ lresp.body = "json"
    /\ lresp.located.matched < Cardinality(DOMAIN lreq.stations)

---------------------------------------------------------------------------
(* get_location_title(): worker threads against the one graph *)

Workers == 1..NumThreads

\* lines 236-240: the WIFIONLY guard, then pos = UserPosition(level, x, y)
TitleBegin(t) ==
    /\ threads[t].at = "idle"
    /\ \E level \in {0, 1}, x \in 0..MaxCoord :
          threads' = [threads EXCEPT ![t] =
                        IF "WIFIONLY" \in env
                        THEN Thread("idle", NoneId, {}, "", NoneId)
                        ELSE Thread("connect", <<"p", level, x>>, {}, "", NoneId)]
    /\ UNCHANGED <<env, graph, req, pc, origin, destination, setsettings, router, result,
                   resp, lreq, lresp>>

\* line 241 with the position and its connections stored in the graph itself
TitleConnect_IntoGraph(t) ==
    /\ threads[t].at = "connect"
    /\ threads' = [threads EXCEPT ![t].edges = connect_position(graph, threads[t].pos),
                                  ![t].at = "respond"]
    /\ graph' = [graph EXCEPT !.nodes = @ \cup {threads[t].pos},
                              !.conns = @ \cup connect_position(graph, threads[t].pos)]
    /\ UNCHANGED <<env, req, pc, origin, destination, setsettings, router, result,
                   resp, lreq, lresp>>

\* line 241: graph.connect_position(pos) gives pos its temporary connections
TitleConnect(t) ==
    /\ threads[t].at = "connect"
    /\ threads' = [threads EXCEPT ![t].edges = connect_position(graph, threads[t].pos),
                                  ![t].at = "respond"]
    /\ UNCHANGED <<env, graph, req, pc, origin, destination, setsettings, router, result,
                   resp, lreq, lresp>>

\* lines 242-245: the name and pos.title as JSON; pos goes out of scope
TitleRespond(t) ==
    /\ threads[t].at = "respond"
    /\ threads' = [threads EXCEPT ![t] =
                      Thread("idle", threads[t].pos, {}, "json",
                             Title(threads[t].pos, threads[t].edges))]
    /\ UNCHANGED <<env, graph, req, pc, origin, destination, setsettings, router, result,
                   resp, lreq, lresp>>

TitleNext == \E t \in Workers : TitleBegin(t) \/ TitleConnect(t) \/ TitleRespond(t)

InitTitle ==
    /\ env \in {{}, {"WIFIONLY"}}
    /\ graph = SquareGraph(DefaultIndex)
    /\ threads = [t \in Workers |-> IdleThread]
    /\ lreq = IdleLocate
    /\ lresp = NoLocateResponse
    /\ req = Request("GET", TRUE, Absent, Absent, NoParams, <<>>, FALSE, NoCookie, FALSE)
    /\ pc = "idle"
    /\ origin = NoneLoc
    /\ destination = NoneLoc
    /\ setsettings = NoSettings
    /\ router = default_settings
    /\ result = NoResult
    /\ resp = NoResponse

SpecTitle == InitTitle /\ [][TitleNext]_vars

============================================================================
